---- MODULE Spec2Model ----
(***************************************************************************)
(* Inventario Marcimex (src/main.py): the Producto entity, the Inventario  *)
(* manager (dict id -> Producto, set of used names) and the SQLite table   *)
(* "productos" it mirrors.                                                 *)
(*                                                                         *)
(* Python values are records [t, n, s, f] so that values of different      *)
(* Python types can be compared; a str is a sequence of one-character      *)
(* strings; a float is a record [k, n] with k = "fin" (the number n) or    *)
(* k = "nan".                                                              *)
(***************************************************************************)
EXTENDS Integers, Sequences, FiniteSets, TLC

\* ---------------------------------------------------------------- bounds
MaxId == 2
MaxQty == 1
MaxPrice == 1
\* stands for 2^63 - 1, the largest value of an SQLite INTEGER
SqliteIntMax == 100

\* ---------------------------------------------------------- Python values
F(n) == [k |-> "fin", n |-> n]
NaN == [k |-> "nan", n |-> 0]

PyInt(n) == [t |-> "int", n |-> n, s |-> <<>>, f |-> F(0)]
PyStr(s) == [t |-> "str", n |-> 0, s |-> s, f |-> F(0)]
PyFloat(f) == [t |-> "float", n |-> 0, s |-> <<>>, f |-> f]
PyNone == [t |-> "None", n |-> 0, s |-> <<>>, f |-> F(0)]

Raise(type, kind) == [type |-> type, kind |-> kind]
NoErr == Raise("none", "none")

\* str.strip(): drop leading and trailing whitespace
RECURSIVE lstrip(_)
lstrip(s) == IF s # <<>> /\ Head(s) = " " THEN lstrip(Tail(s)) ELSE s

RECURSIVE rstrip(_)
rstrip(s) ==
    IF s # <<>> /\ s[Len(s)] = " " THEN rstrip(SubSeq(s, 1, Len(s) - 1)) ELSE s

strip(s) == rstrip(lstrip(s))

\* str.lower()
LowerChar(c) == IF c = "A" THEN "a" ELSE IF c = "B" THEN "b" ELSE c

lower(s) == [i \in 1..Len(s) |-> LowerChar(s[i])]

Digits == [c \in {"0", "1", "2"} |-> IF c = "0" THEN 0 ELSE IF c = "1" THEN 1 ELSE 2]

RECURSIVE ParseDigits(_)
ParseDigits(s) ==
    IF s = <<>> THEN 0
    ELSE 10 * ParseDigits(SubSeq(s, 1, Len(s) - 1)) + Digits[s[Len(s)]]

\* float(value): [err, f]
float(value) ==
    CASE value.t = "float" -> [err |-> NoErr, f |-> value.f]
      [] value.t = "int" -> [err |-> NoErr, f |-> F(value.n)]
      [] value.t = "str" ->
            LET d == strip(value.s) IN
            IF d # <<>> /\ \A i \in 1..Len(d) : d[i] \in DOMAIN Digits
            THEN [err |-> NoErr, f |-> F(ParseDigits(d))]
            ELSE [err |-> Raise("ValueError", "float"), f |-> NaN]
      [] OTHER -> [err |-> Raise("TypeError", "float"), f |-> NaN]

\* f < 0 on floats: every comparison with NaN is false
FloatNeg(f) == f.k = "fin" /\ f.n < 0

\* ---------------------------------------------------------------- Producto
\* Producto.__init__ lines 85-88: the four private fields start as None
NoField == [_id |-> 0, _nombre |-> <<>>, _cantidad |-> 0, _precio |-> F(0)]

id_setter(obj, value) ==
    IF value.t # "int" \/ value.n <= 0
    THEN [err |-> Raise("ValueError", "id"), obj |-> obj]
    ELSE [err |-> NoErr, obj |-> [obj EXCEPT !._id = value.n]]

\* the setter without the strip
nombre_setter_no_strip(obj, value) ==
    IF value.t # "str" \/ strip(value.s) = <<>>
    THEN [err |-> Raise("ValueError", "nombre"), obj |-> obj]
    ELSE [err |-> NoErr, obj |-> [obj EXCEPT !._nombre = value.s]]

nombre_setter(obj, value) ==
    IF value.t # "str" \/ strip(value.s) = <<>>
    THEN [err |-> Raise("ValueError", "nombre"), obj |-> obj]
    ELSE [err |-> NoErr, obj |-> [obj EXCEPT !._nombre = strip(value.s)]]

cantidad_setter(obj, value) ==
    IF value.t # "int" \/ value.n < 0
    THEN [err |-> Raise("ValueError", "cantidad"), obj |-> obj]
    ELSE [err |-> NoErr, obj |-> [obj EXCEPT !._cantidad = value.n]]

precio_setter(obj, value) ==
    LET c == float(value) IN
    IF c.err # NoErr THEN [err |-> Raise("ValueError", "precio"), obj |-> obj]
    ELSE IF FloatNeg(c.f) THEN [err |-> Raise("ValueError", "precio"), obj |-> obj]
    ELSE [err |-> NoErr, obj |-> [obj EXCEPT !._precio = c.f]]

\* Producto(id, nombre, cantidad, precio): the setters in order, the first
\* failure raises
Producto(id, nombre, cantidad, precio) ==
    LET r1 == id_setter(NoField, id)
        r2 == nombre_setter(r1.obj, nombre)
        r3 == cantidad_setter(r2.obj, cantidad)
        r4 == precio_setter(r3.obj, precio)
    IN  IF r1.err # NoErr THEN r1
        ELSE IF r2.err # NoErr THEN r2
        ELSE IF r3.err # NoErr THEN r3
        ELSE r4

to_snapshot(obj) ==
    [id |-> obj._id, nombre |-> obj._nombre, cantidad |-> obj._cantidad,
     precio |-> obj._precio]

\* ------------------------------------------------------- SQLite (class DB)
\* The store: whether table "productos" exists, and its rows
\* [id, nombre, cantidad, precio].
FreshStore == [schema |-> FALSE, rows |-> {}]

\* the table dropped and created again on every startup
_ensure_schema_recreate(d) == [schema |-> TRUE, rows |-> {}]

\* CREATE TABLE IF NOT EXISTS productos (...)
_ensure_schema(d) == IF d.schema THEN d ELSE [schema |-> TRUE, rows |-> {}]

DB_init(d) == _ensure_schema(d)

\* binding a Python int larger than an SQLite INTEGER raises OverflowError
BindOverflow(n) == n > SqliteIntMax

\* INSERT INTO productos (id, nombre, cantidad, precio) VALUES (?, ?, ?, ?)
\* under the constraints of the schema; a NaN is bound as NULL.
sql_insert(d, id, nombre, cantidad, precio) ==
    IF BindOverflow(id) \/ BindOverflow(cantidad)
    THEN [err |-> Raise("OverflowError", "bind"), db |-> d]
    ELSE IF precio.k = "nan"
    THEN [err |-> Raise("IntegrityError", "NOT NULL precio"), db |-> d]
    ELSE IF cantidad < 0 \/ FloatNeg(precio)
    THEN [err |-> Raise("IntegrityError", "CHECK"), db |-> d]
    ELSE IF \E r \in d.rows : r.id = id
    THEN [err |-> Raise("IntegrityError", "UNIQUE id"), db |-> d]
    ELSE IF \E r \in d.rows : r.nombre = nombre
    THEN [err |-> Raise("IntegrityError", "UNIQUE nombre"), db |-> d]
    ELSE [err |-> NoErr,
          db |-> [d EXCEPT !.rows = @ \cup {[id |-> id, nombre |-> nombre,
                                            cantidad |-> cantidad,
                                            precio |-> precio]}]]

\* the DELETE without its WHERE clause
sql_delete_all(d, id) ==
    IF BindOverflow(id)
    THEN [err |-> Raise("OverflowError", "bind"), db |-> d]
    ELSE [err |-> NoErr, db |-> [d EXCEPT !.rows = {}]]

\* DELETE FROM productos WHERE id = ?
sql_delete(d, id) ==
    IF BindOverflow(id)
    THEN [err |-> Raise("OverflowError", "bind"), db |-> d]
    ELSE [err |-> NoErr, db |-> [d EXCEPT !.rows = {r \in @ : r.id # id}]]

\* UPDATE productos SET cantidad = ? WHERE id = ?
sql_update_cantidad(d, cantidad, id) ==
    IF BindOverflow(cantidad) \/ BindOverflow(id)
    THEN [err |-> Raise("OverflowError", "bind"), db |-> d]
    ELSE IF cantidad < 0 /\ \E r \in d.rows : r.id = id
    THEN [err |-> Raise("IntegrityError", "CHECK"), db |-> d]
    ELSE [err |-> NoErr,
          db |-> [d EXCEPT !.rows =
                    {IF r.id = id THEN [r EXCEPT !.cantidad = cantidad] ELSE r
                       : r \in @}]]

\* the UPDATE without its WHERE clause
sql_update_precio_all(d, precio, id) ==
    IF BindOverflow(id)
    THEN [err |-> Raise("OverflowError", "bind"), db |-> d]
    ELSE IF (precio.k = "nan" \/ FloatNeg(precio)) /\ d.rows # {}
    THEN [err |-> Raise("IntegrityError", "CHECK"), db |-> d]
    ELSE [err |-> NoErr,
          db |-> [d EXCEPT !.rows = {[r EXCEPT !.precio = precio] : r \in @}]]

\* UPDATE productos SET precio = ? WHERE id = ?
sql_update_precio(d, precio, id) ==
    IF BindOverflow(id)
    THEN [err |-> Raise("OverflowError", "bind"), db |-> d]
    ELSE IF precio.k = "nan" /\ \E r \in d.rows : r.id = id
    THEN [err |-> Raise("IntegrityError", "NOT NULL precio"), db |-> d]
    ELSE IF FloatNeg(precio) /\ \E r \in d.rows : r.id = id
    THEN [err |-> Raise("IntegrityError", "CHECK"), db |-> d]
    ELSE [err |-> NoErr,
          db |-> [d EXCEPT !.rows =
                    {IF r.id = id THEN [r EXCEPT !.precio = precio] ELSE r
                       : r \in @}]]

\* SELECT id, nombre, cantidad, precio FROM productos ORDER BY id
RECURSIVE OrderById(_)
OrderById(rows) ==
    IF rows = {} THEN <<>>
    ELSE LET m == CHOOSE r \in rows : \A q \in rows : r.id <= q.id
         IN  <<m>> \o OrderById(rows \ {m})

sql_select_all(d) == OrderById(d.rows)

\* ------------------------------------------------- dict[int, Producto]
\* Inventario.items is a sequence of [key, ref] in insertion order; ref is
\* the identity of the Producto object in the heap.
dict_has(items, k) == \E i \in 1..Len(items) : items[i].key = k

dict_get(items, k) ==
    items[CHOOSE i \in 1..Len(items) : items[i].key = k].ref

\* a new key put first instead of last
dict_set_first(items, k, ref) ==
    IF dict_has(items, k)
    THEN [i \in 1..Len(items) |->
            IF items[i].key = k THEN [key |-> k, ref |-> ref] ELSE items[i]]
    ELSE <<[key |-> k, ref |-> ref]>> \o items

dict_set(items, k, ref) ==
    IF dict_has(items, k)
    THEN [i \in 1..Len(items) |->
            IF items[i].key = k THEN [key |-> k, ref |-> ref] ELSE items[i]]
    ELSE Append(items, [key |-> k, ref |-> ref])

dict_del(items, k) == SelectSeq(items, LAMBDA e : e.key # k)

Refs == 1..(MaxId + 1)

\* A new object gets an identity no live object has: the one numbered like
\* the id it is built with when that is free, else the smallest free one.
NewRef(heap, id) ==
    IF id \in Refs \ DOMAIN heap THEN id
    ELSE CHOOSE r \in Refs \ DOMAIN heap : \A q \in Refs \ DOMAIN heap : r <= q

Alloc(heap, ref, obj) ==
    [r \in DOMAIN heap \cup {ref} |-> IF r = ref THEN obj ELSE heap[r]]

\* objects no longer referenced from the dict are reclaimed
Collect(st) ==
    [st EXCEPT !.heap =
        [r \in {st.items[i].ref : i \in 1..Len(st.items)} |-> st.heap[r]]]

\* -------------------------------------------------------------- Inventario
\* A manager state st is [db, items, heap, nombres_usados]; every operation
\* returns [st, err, effects]: the state it leaves, the exception it raises
\* (NoErr when it returns normally) and the writes it made, in order ("db" a
\* committed statement, "db_fail" a statement the store rejected, "mem" a
\* write to items / _nombres_usados / a Producto of the dict).
Result(st, err, effects) == [st |-> st, err |-> err, effects |-> effects]

RECURSIVE LoadRows(_, _)
LoadRows(st, rows) ==
    IF rows = <<>> THEN Result(st, NoErr, <<"mem">>)
    ELSE LET row == Head(rows)
             c == Producto(PyInt(row.id), PyStr(row.nombre),
                           PyInt(row.cantidad), PyFloat(row.precio))
             ref == NewRef(st.heap, row.id)
         IN  IF c.err # NoErr THEN Result(st, c.err, <<"mem">>)
             ELSE LoadRows(
                    [st EXCEPT !.heap = Alloc(@, ref, c.obj),
                               !.items = dict_set(@, c.obj._id, ref),
                               !.nombres_usados = @ \cup {c.obj._nombre}],
                    Tail(rows))

\* the names of the rows loaded not put in the name set
_load_from_db_no_names(st) ==
    LET r == LoadRows(Collect([st EXCEPT !.items = <<>>,
                                         !.nombres_usados = {}]),
                      sql_select_all(st.db))
    IN  Result([r.st EXCEPT !.nombres_usados = {}], r.err, r.effects)

_load_from_db(st) ==
    LoadRows(Collect([st EXCEPT !.items = <<>>, !.nombres_usados = {}]),
             sql_select_all(st.db))

\* Inventario(db or DB()): schema bootstrap, empty collections, full load
Inventario_init(store) ==
    _load_from_db([db |-> DB_init(store), items |-> <<>>, heap |-> <<>>,
                   nombres_usados |-> {}])

\* the memory written before the store
add_producto_mem_first(st, ref) ==
    LET p == st.heap[ref] IN
    IF dict_has(st.items, p._id)
    THEN Result(st, Raise("ValueError", "dup_id"), <<>>)
    ELSE IF p._nombre \in st.nombres_usados
    THEN Result(st, Raise("ValueError", "dup_nombre"), <<>>)
    ELSE LET w == sql_insert(st.db, p._id, p._nombre, p._cantidad, p._precio)
             m == [st EXCEPT !.items = dict_set(@, p._id, ref),
                             !.nombres_usados = @ \cup {p._nombre}]
         IN  IF w.err # NoErr THEN Result(m, w.err, <<"mem", "db_fail">>)
             ELSE Result([m EXCEPT !.db = w.db], NoErr, <<"mem", "db">>)

\* the check of the id left out
add_producto_no_id_check(st, ref) ==
    LET p == st.heap[ref] IN
    IF p._nombre \in st.nombres_usados
    THEN Result(st, Raise("ValueError", "dup_nombre"), <<>>)
    ELSE LET w == sql_insert(st.db, p._id, p._nombre, p._cantidad, p._precio)
         IN  IF w.err # NoErr THEN Result(st, w.err, <<"db_fail">>)
             ELSE Result([st EXCEPT !.db = w.db,
                                    !.items = dict_set(@, p._id, ref),
                                    !.nombres_usados = @ \cup {p._nombre}],
                         NoErr, <<"db", "mem">>)

\* the check of the name left out
add_producto_no_name_check(st, ref) ==
    LET p == st.heap[ref] IN
    IF dict_has(st.items, p._id)
    THEN Result(st, Raise("ValueError", "dup_id"), <<>>)
    ELSE LET w == sql_insert(st.db, p._id, p._nombre, p._cantidad, p._precio)
         IN  IF w.err # NoErr THEN Result(st, w.err, <<"db_fail">>)
             ELSE Result([st EXCEPT !.db = w.db,
                                    !.items = dict_set(@, p._id, ref),
                                    !.nombres_usados = @ \cup {p._nombre}],
                         NoErr, <<"db", "mem">>)

\* the Producto put in the name set but not in the dict
add_producto_no_index(st, ref) ==
    LET p == st.heap[ref] IN
    IF dict_has(st.items, p._id)
    THEN Result(st, Raise("ValueError", "dup_id"), <<>>)
    ELSE IF p._nombre \in st.nombres_usados
    THEN Result(st, Raise("ValueError", "dup_nombre"), <<>>)
    ELSE LET w == sql_insert(st.db, p._id, p._nombre, p._cantidad, p._precio)
         IN  IF w.err # NoErr THEN Result(st, w.err, <<"db_fail">>)
             ELSE Result([st EXCEPT !.db = w.db,
                                    !.nombres_usados = @ \cup {p._nombre}],
                         NoErr, <<"db", "mem">>)

add_producto(st, ref) ==
    LET p == st.heap[ref] IN
    IF dict_has(st.items, p._id)
    THEN Result(st, Raise("ValueError", "dup_id"), <<>>)
    ELSE IF p._nombre \in st.nombres_usados
    THEN Result(st, Raise("ValueError", "dup_nombre"), <<>>)
    ELSE LET w == sql_insert(st.db, p._id, p._nombre, p._cantidad, p._precio)
         IN  IF w.err # NoErr THEN Result(st, w.err, <<"db_fail">>)
             ELSE Result([st EXCEPT !.db = w.db,
                                    !.items = dict_set(@, p._id, ref),
                                    !.nombres_usados = @ \cup {p._nombre}],
                         NoErr, <<"db", "mem">>)

\* the DELETE statement left out
remove_producto_no_delete(st, id_) ==
    IF ~dict_has(st.items, id_)
    THEN Result(st, Raise("KeyError", "not_found"), <<>>)
    ELSE LET nombre == st.heap[dict_get(st.items, id_)]._nombre
         IN  Result([st EXCEPT !.items = dict_del(@, id_),
                               !.nombres_usados = @ \ {nombre}],
                    NoErr, <<"mem">>)

\* the name left in the name set
remove_producto_keep_name(st, id_) ==
    IF ~dict_has(st.items, id_)
    THEN Result(st, Raise("KeyError", "not_found"), <<>>)
    ELSE LET w == sql_delete(st.db, id_)
         IN  IF w.err # NoErr THEN Result(st, w.err, <<"db_fail">>)
             ELSE Result([st EXCEPT !.db = w.db, !.items = dict_del(@, id_)],
                         NoErr, <<"db", "mem">>)

remove_producto(st, id_) ==
    IF ~dict_has(st.items, id_)
    THEN Result(st, Raise("KeyError", "not_found"), <<>>)
    ELSE LET nombre == st.heap[dict_get(st.items, id_)]._nombre
             w == sql_delete(st.db, id_)
         IN  IF w.err # NoErr THEN Result(st, w.err, <<"db_fail">>)
             ELSE Result([st EXCEPT !.db = w.db,
                                    !.items = dict_del(@, id_),
                                    !.nombres_usados = @ \ {nombre}],
                         NoErr, <<"db", "mem">>)

\* the value validated before the id is looked up
update_cantidad_validate_first(st, id_, nueva_cantidad) ==
    IF nueva_cantidad.t # "int" \/ nueva_cantidad.n < 0
    THEN Result(st, Raise("ValueError", "cantidad"), <<>>)
    ELSE IF ~dict_has(st.items, id_)
    THEN Result(st, Raise("KeyError", "not_found"), <<>>)
    ELSE LET w == sql_update_cantidad(st.db, nueva_cantidad.n, id_)
             ref == dict_get(st.items, id_)
             m == cantidad_setter(st.heap[ref], nueva_cantidad)
         IN  IF w.err # NoErr THEN Result(st, w.err, <<"db_fail">>)
             ELSE Result([st EXCEPT !.db = w.db, !.heap[ref] = m.obj],
                         NoErr, <<"db", "mem">>)

update_cantidad(st, id_, nueva_cantidad) ==
    IF ~dict_has(st.items, id_)
    THEN Result(st, Raise("KeyError", "not_found"), <<>>)
    ELSE IF nueva_cantidad.t # "int" \/ nueva_cantidad.n < 0
    THEN Result(st, Raise("ValueError", "cantidad"), <<>>)
    ELSE LET w == sql_update_cantidad(st.db, nueva_cantidad.n, id_)
             ref == dict_get(st.items, id_)
             m == cantidad_setter(st.heap[ref], nueva_cantidad)
         IN  IF w.err # NoErr THEN Result(st, w.err, <<"db_fail">>)
             ELSE IF m.err # NoErr
             THEN Result([st EXCEPT !.db = w.db], m.err, <<"db">>)
             ELSE Result([st EXCEPT !.db = w.db, !.heap[ref] = m.obj],
                         NoErr, <<"db", "mem">>)

update_precio(st, id_, nuevo_precio) ==
    LET c == float(nuevo_precio) IN
    IF ~dict_has(st.items, id_)
    THEN Result(st, Raise("KeyError", "not_found"), <<>>)
    ELSE IF c.err # NoErr
    THEN Result(st, Raise("ValueError", "precio"), <<>>)
    ELSE IF FloatNeg(c.f)
    THEN Result(st, Raise("ValueError", "precio"), <<>>)
    ELSE LET w == sql_update_precio(st.db, c.f, id_)
             ref == dict_get(st.items, id_)
             m == precio_setter(st.heap[ref], PyFloat(c.f))
         IN  IF w.err # NoErr THEN Result(st, w.err, <<"db_fail">>)
             ELSE IF m.err # NoErr
             THEN Result([st EXCEPT !.db = w.db], m.err, <<"db">>)
             ELSE Result([st EXCEPT !.db = w.db, !.heap[ref] = m.obj],
                         NoErr, <<"db", "mem">>)

\* list(self.items.values()): the Producto objects of the dict themselves
listar_todos(st) == [i \in 1..Len(st.items) |-> st.items[i].ref]

\* what a caller reads from the Producto objects of a result
Snapshots(st, refs) ==
    [i \in 1..Len(refs) |-> to_snapshot(st.heap[refs[i]])]

\* t in s, on str
Contains(t, s) ==
    \E i \in 0..(Len(s) - Len(t)) : SubSeq(s, i + 1, i + Len(t)) = t

\* the names compared as they are, letter case included
buscar_por_nombre_case(st, texto) ==
    IF texto.t # "str" \/ texto.s = <<>> THEN <<>>
    ELSE LET hit(e) == Contains(texto.s, st.heap[e.ref]._nombre)
         IN  [i \in 1..Len(SelectSeq(st.items, hit)) |->
                SelectSeq(st.items, hit)[i].ref]

buscar_por_nombre(st, texto) ==
    IF texto.t # "str" \/ texto.s = <<>> THEN <<>>
    ELSE LET t == lower(texto.s)
             hit(e) == Contains(t, lower(st.heap[e.ref]._nombre))
         IN  [i \in 1..Len(SelectSeq(st.items, hit)) |->
                SelectSeq(st.items, hit)[i].ref]

\* --------------------------------------------------------------- inputs
\* Good values pass every layer; Bad values are rejected by the Producto
\* setters; Odd values pass the setters and are converted by float() or
\* rejected by the store.
GoodIds == {PyInt(n) : n \in 1..MaxId}
BadIds == {PyInt(0), PyNone}
OddIds == {PyInt(SqliteIntMax + 1)}

GoodNames == {PyStr(<<"a">>), PyStr(<<"A">>), PyStr(<<" ", "a", " ">>)}
BadNames == {PyStr(<<" ">>), PyStr(<<>>), PyNone}

\* no stock and the largest stock
GoodQtys == {PyInt(0), PyInt(MaxQty)}
BadQtys == {PyInt(0 - 1), PyFloat(F(1))}
OddQtys == {PyInt(SqliteIntMax + 1)}

GoodPrices == {PyInt(n) : n \in 0..MaxPrice}
BadPrices == {PyInt(0 - 1), PyStr(<<"a">>), PyNone}
OddPrices == {PyFloat(NaN), PyStr(<<"1">>)}

RawQtys == GoodQtys \cup BadQtys \cup OddQtys

RawPrices == GoodPrices \cup BadPrices \cup OddPrices

\* arguments of Producto(...): all good (a cantidad or a precio other than 0,
\* not both: the updates reach the rest), or one bad or odd argument (the
\* constructor raises at the first bad one, whatever the others are)
AddInputs ==
    (GoodIds \X GoodNames \X GoodQtys \X {PyInt(0)})
        \cup (GoodIds \X GoodNames \X {PyInt(0)} \X GoodPrices)
        \cup (BadIds \X {PyStr(<<"a">>)} \X {PyInt(0)} \X {PyInt(0)})
        \cup ({PyInt(1)} \X BadNames \X {PyInt(0)} \X {PyInt(0)})
        \cup ({PyInt(1)} \X {PyStr(<<"a">>)} \X BadQtys \X {PyInt(0)})
        \cup ({PyInt(1)} \X {PyStr(<<"a">>)} \X {PyInt(0)} \X BadPrices)
        \cup (OddIds \X GoodNames \X {PyInt(0)} \X {PyInt(0)})
        \cup (GoodIds \X GoodNames \X OddQtys \X {PyInt(0)})
        \cup (GoodIds \X GoodNames \X {PyInt(0)} \X OddPrices)

ArgIds == 0..MaxId

\* ------------------------------------------------------------ menu options
\* the outcome of a handler once its locals are dropped
Done(r) == Result(Collect(r.st), r.err, r.effects)

\* inv.add_producto(p) for a Producto p just built with the fields of obj
add_nuevo(st, obj) ==
    LET ref == NewRef(st.heap, obj._id) IN
    Done(add_producto([st EXCEPT !.heap = Alloc(@, ref, obj)], ref))

\* option 1: p = Producto(id_, nombre, cantidad, precio); inv.add_producto(p)
opcion_1(st, t) ==
    LET c == Producto(t[1], t[2], t[3], t[4]) IN
    IF c.err # NoErr THEN Result(st, c.err, <<>>) ELSE add_nuevo(st, c.obj)

\* option 2: inv.remove_producto(id_)
opcion_2(st, id_) == Done(remove_producto(st, id_))

\* option 3: inv.update_cantidad(id_, nueva)
opcion_3(st, id_, nueva) == Done(update_cantidad(st, id_, nueva))

\* option 4: inv.update_precio(id_, nuevo)
opcion_4(st, id_, nuevo) == Done(update_precio(st, id_, nuevo))

\* ---------------------------------------------------------------- state
\* db, items, heap, nombres_usados: the store and the manager's collections.
\* last: the operation just completed: its name ("new" when the Producto
\* constructor raised), the exception raised, the writes made, and whether it
\* is a remove_producto of the id that the operation before it added.
\* added: the id of the Producto added by the operation just completed, 0
\* when it added none.
\* conn_open: a connection to the store that this process opened is still
\* open.
VARIABLES db, items, heap, nombres_usados, last, added, conn_open

vars == <<db, items, heap, nombres_usados, last, added, conn_open>>

S == [db |-> db, items |-> items, heap |-> heap,
      nombres_usados |-> nombres_usados]

\* The DB.connect() calls of a completed call: DB() makes one (in
\* _ensure_schema) and _load_from_db one; a mutating operation makes one
\* unless a check before its "with" block raised. No call closes what it
\* opened: leaving "with conn" commits or rolls back, and the Connection is
\* closed only when the garbage collector reclaims the object.
Connects(op, r) ==
    IF op = "init" THEN 2 ELSE IF r.effects = <<>> THEN 0 ELSE 1

Commit(r, op, id_) ==
    /\ conn_open' = IF op = "init" THEN Connects(op, r) > 0
                    ELSE conn_open \/ Connects(op, r) > 0
    /\ db' = r.st.db
    /\ items' = r.st.items
    /\ heap' = r.st.heap
    /\ nombres_usados' = r.st.nombres_usados
    /\ last' = [op |-> op, err |-> r.err, effects |-> r.effects,
                follows_add |-> op = "remove" /\ r.err = NoErr /\ added = id_]
    /\ added' = IF op = "add" /\ r.err = NoErr THEN id_ ELSE 0

Init ==
    LET r == Done(Inventario_init(FreshStore)) IN
    /\ db = r.st.db
    /\ items = r.st.items
    /\ heap = r.st.heap
    /\ nombres_usados = r.st.nombres_usados
    /\ last = [op |-> "init", err |-> r.err, effects |-> r.effects,
               follows_add |-> FALSE]
    /\ added = 0
    /\ conn_open = (Connects("init", r) > 0)

Add ==
    \E t \in AddInputs :
        LET r == opcion_1(S, t) IN
        IF Producto(t[1], t[2], t[3], t[4]).err # NoErr
        THEN Commit(r, "new", 0)
        ELSE Commit(r, "add", t[1].n)

Remove ==
    \E id_ \in ArgIds : Commit(opcion_2(S, id_), "remove", id_)

UpdateCantidad ==
    \E id_ \in ArgIds, q \in RawQtys :
        Commit(opcion_3(S, id_, q), "update_cantidad", id_)

UpdatePrecio ==
    \E id_ \in ArgIds, v \in RawPrices :
        Commit(opcion_4(S, id_, v), "update_precio", id_)

\* the process ends and a new Inventario is built on the same store
Restart ==
    Commit(Done(Inventario_init(db)), "init", 0)

Next == Add \/ Remove \/ UpdateCantidad \/ UpdatePrecio \/ Restart

Spec == Init /\ [][Next]_vars

\* another process writes a valid row into the table behind the manager
ExtNames == {<<"a">>, <<"A">>}

ExtInsert ==
    \E id \in 1..MaxId, nombre \in ExtNames :
        LET w == sql_insert(db, id, nombre, 0, F(0)) IN
        /\ w.err = NoErr
        /\ db' = w.db
        /\ last' = [op |-> "ext", err |-> NoErr, effects |-> <<>>,
                    follows_add |-> FALSE]
        /\ added' = 0
        /\ UNCHANGED <<items, heap, nombres_usados, conn_open>>

NextExt == Next \/ ExtInsert

SpecExt == Init /\ [][NextExt]_vars

\* the garbage collector reclaims the Connection objects no longer referenced,
\* which closes them; when it runs is not the program's choice
Gc ==
    /\ conn_open
    /\ conn_open' = FALSE
    /\ UNCHANGED <<db, items, heap, nombres_usados, last, added>>

NextConn == Next \/ Gc

SpecConn == Init /\ [][NextConn]_vars

\* ------------------------------------------------------------------ menu
\* the exception types the except clauses of the menu loop name
Caught == {"ValueError", "KeyError", "IntegrityError"}

\* the menu loop is at its prompt: it was not left through option 0, and the
\* option handled last raised nothing or an exception an except clause caught
AtPrompt == last.op # "salir" /\ last.err.type \in Caught \cup {"none"}

\* options 1 to 4, taken at the prompt
Opcion1 == AtPrompt /\ Add

Opcion2 == AtPrompt /\ Remove

Opcion3 == AtPrompt /\ UpdateCantidad

Opcion4 == AtPrompt /\ UpdatePrecio

\* the texts searched for: none, empty, and texts of one and two letters
SearchTexts ==
    {PyNone, PyStr(<<>>), PyStr(<<"a">>), PyStr(<<"B">>),
     PyStr(<<"A", "B">>), PyStr(<<"b", "a">>), PyStr(<<"a", "a">>)}

\* option 5: the matches of buscar_por_nombre are printed, or that there are
\* none
Opcion5 ==
    /\ AtPrompt
    /\ \E texto \in SearchTexts :
        Commit(Result(S, NoErr, <<>>),
               IF buscar_por_nombre(S, texto) = <<>> THEN "sin_coincidencias"
               ELSE "buscar", 0)

\* option 6: imprimir_todos prints listar_todos
Opcion6 == AtPrompt /\ Commit(Result(S, NoErr, <<>>), "listar", 0)

\* option 0: break
Opcion0 == AtPrompt /\ Commit(Result(S, NoErr, <<>>), "salir", 0)

\* one pass of the loop while the process runs; python main.py again (Restart)
\* at any time
NextMenu ==
    \/ Opcion1
    \/ Opcion2
    \/ Opcion3
    \/ Opcion4
    \/ Opcion5
    \/ Opcion6
    \/ Opcion0
    \/ Restart

SpecMenu == Init /\ [][NextMenu]_vars

\* An inventory of names of one and two letters in both cases, searched:
\* option 1 with such a name, option 2, option 5.
SearchNames == {<<"a", "b">>, <<"B", "a">>, <<"b">>, <<"A">>}

AddNombre ==
    \E id \in 1..MaxId, nombre \in SearchNames :
        Commit(opcion_1(S, <<PyInt(id), PyStr(nombre), PyInt(0), PyInt(0)>>),
               "add", id)

NextSearch == AddNombre \/ Remove \/ Opcion5

SpecSearch == Init /\ [][NextSearch]_vars

\* A caller of the manager holds Producto objects: the one it passed to
\* add_producto and those returned by listar_todos and buscar_por_nombre,
\* all of them the very objects the dict holds. Held(S) are their identities.
Held(st) == {listar_todos(st)[i] : i \in 1..Len(listar_todos(st))}

\* the caller has assigned a field of a held Producto through its setter
Assign(ref, m, op) ==
    /\ heap' = [heap EXCEPT ![ref] = m.obj]
    /\ last' = [op |-> op, err |-> m.err,
                effects |-> IF m.err = NoErr THEN <<"mem">> ELSE <<>>,
                follows_add |-> FALSE]
    /\ added' = 0
    /\ UNCHANGED <<db, items, nombres_usados, conn_open>>

\* the values the caller assigns: for each field, values its setter accepts
\* and one it rejects
SetIds == GoodIds \cup {PyInt(0)}

SetNames == {PyStr(<<"a">>), PyStr(<<"A">>), PyStr(<<" ">>)}

SetQtys == {PyInt(MaxQty), PyInt(0 - 1)}

SetPrices == {PyInt(MaxPrice), PyInt(0 - 1)}

\* p.id = v
SetId ==
    \E ref \in Held(S), v \in SetIds :
        Assign(ref, id_setter(heap[ref], v), "set_id")

\* p.nombre = v
SetNombre ==
    \E ref \in Held(S), v \in SetNames :
        Assign(ref, nombre_setter(heap[ref], v), "set_nombre")

\* p.cantidad = v
SetCantidad ==
    \E ref \in Held(S), v \in SetQtys :
        Assign(ref, cantidad_setter(heap[ref], v), "set_cantidad")

\* p.precio = v
SetPrecio ==
    \E ref \in Held(S), v \in SetPrices :
        Assign(ref, precio_setter(heap[ref], v), "set_precio")

SetterOps == {"set_id", "set_nombre", "set_cantidad", "set_precio"}

NextAlias ==
    Add \/ Remove \/ Restart \/ SetId \/ SetNombre \/ SetCantidad \/ SetPrecio

SpecAlias == Init /\ [][NextAlias]_vars

\* ---------------------------------------------------------------- views
\* the products of the mapping, as rows: the key and the fields of its value
MemRows(st) ==
    {[id |-> st.items[i].key,
      nombre |-> st.heap[st.items[i].ref]._nombre,
      cantidad |-> st.heap[st.items[i].ref]._cantidad,
      precio |-> st.heap[st.items[i].ref]._precio] : i \in 1..Len(st.items)}

MemNames(st) ==
    {st.heap[st.items[i].ref]._nombre : i \in 1..Len(st.items)}

Mem(st) == [items |-> st.items, heap |-> st.heap,
            nombres_usados |-> st.nombres_usados]

DupId == Raise("ValueError", "dup_id")
DupNombre == Raise("ValueError", "dup_nombre")
NotFound == Raise("KeyError", "not_found")

\* the Productos that option 1 can build and pass to add_producto
Built ==
    {Producto(t[1], t[2], t[3], t[4]).obj :
        t \in {u \in AddInputs : Producto(u[1], u[2], u[3], u[4]).err = NoErr}}

\* a mutating call wrote the store first, and nothing else when it failed
StoreFirst(st, r) ==
    /\ r.effects \in {<<>>, <<"db_fail">>, <<"db", "mem">>}
    /\ r.effects = <<"db_fail">> =>
        /\ Mem(r.st) = Mem(st)
        /\ r.err.type \in {"IntegrityError", "OverflowError"}

\* ---------------------------------------------------------------- claims

\* C1: after every completed operation of the manager (successful or failed)
\* the mapping and the table hold the same products: the same ids and, for
\* every id, the same nombre, cantidad and precio.
C1_MemoryEqualsStore == MemRows(S) = db.rows

\* a failed operation (the store rejected the INSERT) on a non-empty inventory
C1_Witness ==
    /\ Len(items) >= 1
    /\ last.op = "add"
    /\ last.err.type = "IntegrityError"

\* C2: every mutating operation, called in any reachable state, writes the
\* store before the memory, and when the store rejects the write the mapping,
\* the Productos and the name set are left as they were and the store's
\* exception reaches the caller.
C2_StoreFirst ==
    /\ \A p \in Built : StoreFirst(S, add_nuevo(S, p))
    /\ \A id_ \in ArgIds :
        /\ StoreFirst(S, opcion_2(S, id_))
        /\ \A q \in RawQtys : StoreFirst(S, opcion_3(S, id_, q))
        /\ \A v \in RawPrices : StoreFirst(S, opcion_4(S, id_, v))

\* add_producto of an id another process inserted after the load: the
\* pre-check passed, the INSERT was rejected
C2_Witness ==
    /\ last.op = "add"
    /\ last.effects = <<"db_fail">>
    /\ last.err = Raise("IntegrityError", "UNIQUE id")
    /\ \E r \in db.rows : ~dict_has(items, r.id)

\* C3: the name set is exactly the set of the names of the Productos of the
\* mapping.
C3_NameSetExact == nombres_usados = MemNames(S)

\* a product was removed and another one is still present
C3_Witness ==
    /\ last.op = "remove"
    /\ last.err = NoErr
    /\ Len(items) >= 1

\* C4: no two Productos of the mapping and no two rows of the table share an
\* id or a name, names compared exactly (case-sensitively) after trimming.
C4_Unique ==
    /\ \A i, j \in 1..Len(items) :
        i # j =>
            /\ items[i].key # items[j].key
            /\ heap[items[i].ref]._id # heap[items[j].ref]._id
            /\ strip(heap[items[i].ref]._nombre)
                 # strip(heap[items[j].ref]._nombre)
    /\ \A r, q \in db.rows :
        r # q => r.id # q.id /\ strip(r.nombre) # strip(q.nombre)

\* two names that differ only in letter case are both present
C4_Witness ==
    /\ {<<"a">>, <<"A">>} \subseteq MemNames(S)
    /\ {<<"a">>, <<"A">>} \subseteq {r.nombre : r \in db.rows}

\* C5: in any reachable state, add_producto of a Producto whose id is a key
\* of the mapping raises the duplicate-id error, whatever its name, and
\* changes neither the mapping, the name set nor the table.
C5_DuplicateId ==
    \A p \in Built :
        dict_has(items, p._id) => add_nuevo(S, p) = Result(S, DupId, <<>>)

\* a duplicate id was rejected where a Producto with that id, a used name
\* and another name than the stored one can be passed
C5_Witness ==
    /\ last.op = "add"
    /\ last.err = DupId
    /\ \E p \in Built :
        /\ dict_has(items, p._id)
        /\ p._nombre \in nombres_usados
        /\ heap[dict_get(items, p._id)]._nombre # p._nombre

\* C6: in any reachable state, add_producto of a Producto with a new id and a
\* name of the name set raises the duplicate-name error and changes neither
\* the mapping, the name set nor the table.
C6_DuplicateName ==
    \A p \in Built :
        (~dict_has(items, p._id) /\ p._nombre \in nombres_usados) =>
            add_nuevo(S, p) = Result(S, DupNombre, <<>>)

\* a duplicate name was rejected and an id is still free
C6_Witness ==
    /\ last.op = "add"
    /\ last.err = DupNombre
    /\ \E p \in Built : ~dict_has(items, p._id) /\ p._nombre \in nombres_usados

\* C7: in any reachable state, remove_producto, update_cantidad and
\* update_precio of an id that is not a key of the mapping raise the
\* not-found error for every new value and change neither the mapping, the
\* name set nor the table.
C7_NotFound ==
    \A id_ \in ArgIds :
        ~dict_has(items, id_) =>
            /\ opcion_2(S, id_) = Result(S, NotFound, <<>>)
            /\ \A q \in RawQtys : opcion_3(S, id_, q) = Result(S, NotFound, <<>>)
            /\ \A v \in RawPrices :
                opcion_4(S, id_, v) = Result(S, NotFound, <<>>)

\* an update of a missing id was rejected on a non-empty inventory
C7_Witness ==
    /\ last.op \in {"update_cantidad", "update_precio"}
    /\ last.err = NotFound
    /\ Len(items) >= 1
    /\ \E id_ \in ArgIds : ~dict_has(items, id_)

\* after add_producto(p) from state st gave r: one entity with p's id, equal
\* to p's snapshot, and the entities of st all still listed
ListedAfterAdd(st, p, r) ==
    LET now == Snapshots(r.st, listar_todos(r.st))
        was == Snapshots(st, listar_todos(st))
    IN  /\ Cardinality({i \in 1..Len(now) : now[i].id = p._id}) = 1
        /\ \A i \in 1..Len(now) : now[i].id = p._id => now[i] = to_snapshot(p)
        /\ \A i \in 1..Len(was) : \E j \in 1..Len(now) : now[j] = was[i]

\* C8: in any reachable state, after a successful add_producto(P),
\* listar_todos holds exactly one entity with P's id, equal to P's snapshot,
\* and every product listed before is still listed unchanged.
C8_AddThenList ==
    \A p \in Built :
        LET r == add_nuevo(S, p) IN
        r.err = NoErr => ListedAfterAdd(S, p, r)

\* a Producto added to an inventory that already listed another one
C8_Witness ==
    /\ last.op = "add"
    /\ last.err = NoErr
    /\ Len(items) = 2
    /\ added = items[2].key

\* after add_producto(p) from state st and then remove_producto(p.id) gave r:
\* st is restored, p's id is neither listed nor found by p's name, and p's
\* name can be added under any other free id
RestoredAfterRemove(st, p, r) ==
    LET now == Snapshots(r.st, listar_todos(r.st))
        found == Snapshots(r.st, buscar_por_nombre(r.st, PyStr(p._nombre)))
    IN  /\ r.err = NoErr
        /\ r.st = st
        /\ \A i \in 1..Len(now) : now[i].id # p._id
        /\ \A i \in 1..Len(found) : found[i].id # p._id
        /\ \A n \in 1..MaxId :
            (n # p._id /\ ~dict_has(r.st.items, n)) =>
                add_nuevo(r.st, [p EXCEPT !._id = n]).err = NoErr

\* C9: in any reachable state, a successful add_producto(P) followed at once
\* by remove_producto(P.id) restores the mapping (order included), the name
\* set and the table; listar_todos and buscar_por_nombre(P.nombre) hold no
\* entity with P's id and a Producto with another id and P's name can be
\* added.
C9_AddThenRemove ==
    \A p \in Built :
        LET r == add_nuevo(S, p) IN
        r.err = NoErr => RestoredAfterRemove(S, p, opcion_2(r.st, p._id))

\* the remove_producto that undoes the add before it, another product present
C9_Witness ==
    /\ last.op = "remove"
    /\ last.follows_add
    /\ last.err = NoErr
    /\ Len(items) >= 1

\* C10: in any reachable state, a new Inventario built on the same store
\* (schema bootstrap and full load) has the same mapping, by id, nombre,
\* cantidad and precio, and the same name set as the one before it, and the
\* bootstrap changes no row.
C10_Restart ==
    LET r == Inventario_init(db) IN
    /\ r.err = NoErr
    /\ MemRows(r.st) = MemRows(S)
    /\ r.st.nombres_usados = nombres_usados
    /\ DB_init(db) = db
    /\ r.st.db = db

\* a restart of an inventory of two products
C10_Witness ==
    /\ last.op = "init"
    /\ Len(items) = 2

\* a value that violates the constraint of the field it is given for
InvalidId(v) == v.t # "int" \/ v.n <= 0

InvalidNombre(v) == v.t # "str" \/ strip(v.s) = <<>>

InvalidCantidad(v) == v.t # "int" \/ v.n < 0

\* not a number, or a number that is not >= 0 (a NaN is not >= 0)
InvalidPrecio(v) ==
    LET c == float(v) IN c.err # NoErr \/ ~(c.f.k = "fin" /\ c.f.n >= 0)

\* the four constraints of a Producto
ValidProducto(obj) ==
    /\ obj._id > 0
    /\ obj._nombre # <<>> /\ strip(obj._nombre) = obj._nombre
    /\ obj._cantidad >= 0
    /\ obj._precio.k = "fin" /\ obj._precio.n >= 0

\* the call raised the validation error and changed nothing
Rejected(st, r) == r.err.type = "ValueError" /\ r.st = st

\* C11: every Producto of the mapping satisfies the four constraints, and
\* every attempt to build a Producto, to set a field of a Producto of the
\* mapping, or to update its cantidad or precio, with a value that violates
\* the field's constraint raises the validation error and changes neither
\* the Producto, the mapping nor the table.
C11_Validated ==
    /\ \A i \in 1..Len(items) : ValidProducto(heap[items[i].ref])
    /\ \A t \in AddInputs :
        (InvalidId(t[1]) \/ InvalidNombre(t[2]) \/ InvalidCantidad(t[3])
            \/ InvalidPrecio(t[4])) => Rejected(S, opcion_1(S, t))
    /\ \A id_ \in ArgIds :
        dict_has(items, id_) =>
            /\ \A q \in RawQtys :
                InvalidCantidad(q) => Rejected(S, opcion_3(S, id_, q))
            /\ \A v \in RawPrices :
                InvalidPrecio(v) => Rejected(S, opcion_4(S, id_, v))
    /\ \A i \in 1..Len(items) :
        LET obj == heap[items[i].ref] IN
        /\ \A q \in RawQtys :
            InvalidCantidad(q) =>
                cantidad_setter(obj, q)
                    = [err |-> Raise("ValueError", "cantidad"), obj |-> obj]
        /\ \A v \in RawPrices :
            InvalidPrecio(v) =>
                precio_setter(obj, v)
                    = [err |-> Raise("ValueError", "precio"), obj |-> obj]

\* C12: the id of a Producto never changes once it is constructed: in every
\* step of the manager or of a caller holding the Producto (a new Inventario
\* aside, which builds new objects), every Producto that exists before and
\* after the step has the same id.
C12_IdImmutable ==
    [][last'.op # "init" =>
        \A ref \in DOMAIN heap \cap DOMAIN heap' :
            heap'[ref]._id = heap[ref]._id]_vars

\* the exceptions the operations of the manager raise when called in st
Failures(st) ==
    ({opcion_1(st, t).err : t \in AddInputs}
        \cup {opcion_2(st, id_).err : id_ \in ArgIds}
        \cup {opcion_3(st, id_, q).err : id_ \in ArgIds, q \in RawQtys}
        \cup {opcion_4(st, id_, v).err : id_ \in ArgIds, v \in RawPrices})
    \ {NoErr}

\* the kind of failure an exception reports, by the statement that raised it
FailureKind(e) ==
    CASE e = DupId -> "duplicate id"
      [] e = DupNombre -> "duplicate name"
      [] e = NotFound -> "not found"
      [] e.type = "ValueError" -> "validation"
      [] OTHER -> "store"

\* C13: the failures of the manager's operations are typed by kind: a
\* duplicate id, a duplicate name, a validation failure and a missing id
\* raise four distinct exception types, so that two failures of different
\* kinds never have the same type.
C13_DistinctTypes ==
    \A e1, e2 \in Failures(S) :
        (FailureKind(e1) # FailureKind(e2)
            /\ "store" \notin {FailureKind(e1), FailureKind(e2)}) =>
                e1.type # e2.type

\* C14: every connection a load or a mutating operation opened is closed
\* when the operation returns, normally or with an exception: between two
\* operations the manager's process holds no open connection.
C14_Released == ~conn_open

\* C15: no exception raised while the menu handles an option ends the
\* process: whenever the loop has not been left through option 0, the option
\* handled last raised nothing or an exception the loop caught, and the menu
\* is back at its prompt.
C15_MenuSurvives == last.op # "salir" => AtPrompt

\* the state st with field f of the Producto under id_ set to x, in the
\* Producto of the mapping and in its row of the table, and nothing else
WithCantidad(st, id_, x) ==
    [st EXCEPT !.heap[dict_get(st.items, id_)]._cantidad = x,
               !.db.rows = {IF row.id = id_ THEN [row EXCEPT !.cantidad = x]
                            ELSE row : row \in @}]

WithPrecio(st, id_, x) ==
    [st EXCEPT !.heap[dict_get(st.items, id_)]._precio = x,
               !.db.rows = {IF row.id = id_ THEN [row EXCEPT !.precio = x]
                            ELSE row : row \in @}]

\* C16: in any reachable state, a successful update_cantidad(id, q) changes
\* only the cantidad, and a successful update_precio(id, v) only the precio
\* (to float(v)), of the Producto with that id and of its row: its id,
\* nombre and other field, every other Producto and row, the name set and
\* the order of the mapping are unchanged.
C16_UpdateFrame ==
    \A id_ \in ArgIds :
        /\ \A q \in RawQtys :
            LET r == opcion_3(S, id_, q) IN
            r.err = NoErr => r.st = WithCantidad(S, id_, q.n)
        /\ \A v \in RawPrices :
            LET r == opcion_4(S, id_, v) IN
            r.err = NoErr => r.st = WithPrecio(S, id_, float(v).f)

\* both updates have succeeded on one of two products: its cantidad and its
\* precio are both other than 0, which no add_producto of the inputs gives
C16_Witness ==
    /\ last.op = "update_precio"
    /\ last.err = NoErr
    /\ Len(items) = 2
    /\ \E i \in 1..2 :
        /\ heap[items[i].ref]._cantidad = MaxQty
        /\ heap[items[i].ref]._precio = F(MaxPrice)
        /\ heap[items[3 - i].ref]._precio = F(0)

\* texto, not empty, is a substring of nombre, both in lower case
Matches(texto, nombre) ==
    \E i, j \in 1..Len(nombre) : SubSeq(lower(nombre), i, j) = lower(texto)

\* the place of object ref in a list of objects
Place(refs, ref) == CHOOSE i \in 1..Len(refs) : refs[i] = ref

\* the result of buscar_por_nombre(texto) in st: nothing for no text or the
\* empty text; else the Productos of listar_todos whose name matches, all of
\* them, each once, in the order of listar_todos
SearchResult(st, texto, res) ==
    LET todos == listar_todos(st) IN
    IF texto.t # "str" \/ texto.s = <<>> THEN res = <<>>
    ELSE /\ \A k \in 1..Len(res) :
            /\ \E i \in 1..Len(todos) : todos[i] = res[k]
            /\ Matches(texto.s, st.heap[res[k]]._nombre)
         /\ \A i \in 1..Len(todos) :
            Matches(texto.s, st.heap[todos[i]]._nombre) =>
                \E k \in 1..Len(res) : res[k] = todos[i]
         /\ \A k, l \in 1..Len(res) :
            k < l => Place(todos, res[k]) < Place(todos, res[l])

\* C17: in any reachable state, buscar_por_nombre returns nothing for an
\* absent or empty text and, for any other text, exactly the Productos of
\* listar_todos whose name contains the text, letter case ignored, in the
\* order of listar_todos; and the search (option 5) changes neither the
\* mapping, the Productos, the name set nor the table.
C17_Search ==
    /\ [](\A texto \in SearchTexts :
            SearchResult(S, texto, buscar_por_nombre(S, texto)))
    /\ [][last'.op \in {"buscar", "sin_coincidencias"} =>
            UNCHANGED <<db, items, heap, nombres_usados>>]_vars

\* a search has printed matches in an inventory of two products where a text
\* matches, in another letter case and inside a longer name, the second
\* product and not the first
C17_Witness ==
    /\ last.op = "buscar"
    /\ Len(items) = 2
    /\ \E texto \in SearchTexts :
        /\ buscar_por_nombre(S, texto) = <<items[2].ref>>
        /\ Len(heap[items[2].ref]._nombre) > Len(texto.s)
        /\ ~Contains(texto.s, heap[items[2].ref]._nombre)

\* the ids of the Productos of listar_todos, in its order
ListedIds(st) ==
    [i \in 1..Len(listar_todos(st)) |-> st.heap[listar_todos(st)[i]]._id]

Ascending(ids) == \A i, j \in 1..Len(ids) : i < j => ids[i] < ids[j]

Without(ids, id_) == SelectSeq(ids, LAMBDA x : x # id_)

Listing == Snapshots(S, listar_todos(S))

\* C19: a caller's assignment to the nombre, the cantidad or the precio of a
\* Producto it holds (the one it passed to add_producto, or one returned by
\* listar_todos or buscar_por_nombre) changes nothing of the inventory: what
\* listar_todos shows and the name set are as before the assignment, and
\* the mapping holds the same products as the table after it.
C19_Isolated ==
    [][last'.op \in SetterOps \ {"set_id"} =>
        /\ Listing' = Listing
        /\ nombres_usados' = nombres_usados
        /\ (MemRows(S) = db.rows)']_vars

\* C20: each key of the mapping is the id of the Producto it maps to, and
\* the mapping has as many entries as the name set has names.
C20_KeysAndCount ==
    /\ \A i \in 1..Len(items) : items[i].key = heap[items[i].ref]._id
    /\ Len(items) = Cardinality(nombres_usados)
    /\ Cardinality({items[i].key : i \in 1..Len(items)}) = Len(items)

\* an update has succeeded on an inventory of two products listed with the
\* larger id first (the smaller one was added later)
C20_Witness ==
    /\ last.op \in {"update_cantidad", "update_precio"}
    /\ last.err = NoErr
    /\ Len(items) = 2
    /\ Cardinality(nombres_usados) = 2
    /\ items[1].key > items[2].key

====
